---- MODULE Spec2Model ----
(***************************************************************************)
(* Model of backend/main.py: a FastAPI service whose handlers relay to a   *)
(* PostgreSQL database (asyncpg) and to an S3 bucket (boto3).              *)
(*                                                                         *)
(* The handlers are coroutines on one event loop.  A handler runs without  *)
(* interruption up to its next `await`; the awaits are in get_data only    *)
(* (connect, fetchrow, close).  The boto3 calls are plain synchronous      *)
(* calls inside `async def` handlers: while one is in progress the event   *)
(* loop runs nothing else.                                                 *)
(***************************************************************************)
EXTENDS Integers, Sequences, FiniteSets, TLC

\* ------------------------------------------------------------------ bounds

\* Requests the service receives in one run.
MaxRequests == 2
\* Longest uploaded filename, in characters.
MaxNameLen == 3
\* Number of values uuid.uuid4() can return in the model.
MaxId == 2
\* Keys in one list_objects_v2 page (S3 answers a call with one page).
PageSize == 1

\* --------------------------------------------------------------- constants

\* ExpiresIn of generate_presigned_url.
ExpiresIn == 3600

S3_BUCKET_NAME == "bucket"

Ids == 1..MaxId
Char == {"a", "."}
Missing == <<"<missing>">>

\* Filenames: the non-empty strings over Char of at most MaxNameLen characters.
FileNames == UNION {[1..n -> Char] : n \in 1..MaxNameLen}

\* ------------------------------------------------------ upload_file's key

\* str.split(sep): the pieces of s between the occurrences of sep.
RECURSIVE split(_, _)
split(s, sep) ==
    IF \A i \in 1..Len(s) : s[i] # sep
    THEN <<s>>
    ELSE LET i == CHOOSE k \in 1..Len(s) :
                      s[k] = sep /\ \A j \in 1..(k - 1) : s[j] # sep
         IN  <<SubSeq(s, 1, i - 1)>> \o split(SubSeq(s, i + 1, Len(s)), sep)

\* ext = file.filename.split(".")[1]: the piece after the first dot.
ext_after_first_dot(filename) ==
    LET parts == split(filename, ".") IN IF Len(parts) > 1 THEN parts[2] ELSE parts[1]

\* ext = file.filename.split(".")[-1]
ext(filename) == LET parts == split(filename, ".") IN parts[Len(parts)]

\* str(uuid.uuid4()) for the id-th value of the generator.
uuid4(id) == ToString(id)

\* f"images/{ext}": the key without the random identifier.
unique_filename_no_uuid(id, e) == <<"images/", ".">> \o e

\* unique_filename = f"images/{uuid.uuid4()}.{ext}"
unique_filename(id, e) == <<"images/", uuid4(id), ".">> \o e

\* file_url = f"https://{S3_BUCKET_NAME}.s3.amazonaws.com/{unique_filename}"
file_url(key) == <<"https://", S3_BUCKET_NAME, ".s3.amazonaws.com/">> \o key

\* The keys upload_file can store, and one key no upload produces.
UploadKeys == {unique_filename(id, ext(f)) : id \in Ids, f \in FileNames}
ForeignKey == <<"other/x">>
Keys == UploadKeys \cup {ForeignKey}

\* ------------------------------------------------------------------- state

VARIABLES
    received,   \* requests received so far
    awaiting,   \* get_data coroutines suspended at each await: a count per await
    blocking,   \* the synchronous boto3 call the event loop is inside, or NoCall
    leaked,     \* connections opened by get_data handlers that returned without closing them
    bucket,     \* the objects in S3_BUCKET_NAME: the key, and the uuid4 value of the
                \* upload that stored it (0: stored by someone else)
    resp,       \* the response to the request that finished last
    last        \* that request: its endpoint, its argument, what its external call raised

vars == <<received, awaiting, blocking, leaked, bucket, resp, last>>

NoArg == <<>>
NoCall == [call |-> "none", file |-> NoArg, id |-> 0, key |-> NoArg]
NoExc == [type |-> "none", msg |-> "none"]

\* What the S3 client raises: a botocore ClientError, or another exception.
ClientError == [type |-> "ClientError", msg |-> "AccessDenied"]
OtherError == [type |-> "Exception", msg |-> "EndpointConnectionError"]
S3Errors == {ClientError, OtherError}

\* What asyncpg raises.
DbError == [type |-> "Exception", msg |-> "PostgresError"]

Awaits == {"connect", "fetchrow", "close"}

\* The requests in progress.
InFlight ==
    awaiting.connect + awaiting.fetchrow + awaiting.close
        + (IF blocking = NoCall THEN 0 ELSE 1)

\* The event loop runs a handler only when it is not inside a synchronous call.
LoopFree == blocking = NoCall

\* A request arrives and the event loop starts its handler.
Receive ==
    /\ LoopFree
    /\ received < MaxRequests
    /\ received' = received + 1

\* Connections that are open: those of suspended handlers and the leaked ones.
openConns == awaiting.fetchrow + awaiting.close + leaked

Response(status, body) == [status |-> status, body |-> body]

\* raise HTTPException(status_code=500, detail=f"{prefix}{e}")
HTTPException(status, prefix, e) == Response(status, [detail |-> <<prefix, e.msg>>])

\* FastAPI answers a request that lacks a required parameter before the handler runs.
RequestValidationError == Response(422, [detail |-> <<"Field required", "none">>])

Finish(op, arg, exc, r) ==
    /\ resp' = r
    /\ last' = [op |-> op, arg |-> arg, raised |-> exc]

Init ==
    /\ received = 0
    /\ awaiting = [a \in Awaits |-> 0]
    /\ blocking = NoCall
    /\ leaked = 0
    /\ bucket = {}
    /\ resp = Response(0, [none |-> "none"])
    /\ last = [op |-> "none", arg |-> NoArg, raised |-> NoExc]

\* ------------------------------------------------- health, root, api_hello

\* A health check that reports the database connections left open.
health_check_db ==
    IF openConns > 0
    THEN Response(503, [status |-> "degraded"])
    ELSE Response(200, [status |-> "ok"])

\* return JSONResponse(content={"status": "ok"}, status_code=200)
health_check == Response(200, [status |-> "ok"])

HealthCheck ==
    /\ Receive
    /\ Finish("health", NoArg, NoExc, health_check)
    /\ UNCHANGED <<awaiting, blocking, leaked, bucket>>

\* root, api_hello and debug_env return a fixed dict; FastAPI sends it with status 200.
StaticBody(op) ==
    CASE op = "root" -> [message |-> "Deployment Successful!"]
      [] op = "hello" -> [message |-> "Hello from the backend!"]
      [] op = "debug-env" -> [message |-> "environment"]

StaticEndpoint(op) ==
    /\ Receive
    /\ Finish(op, NoArg, NoExc, Response(200, StaticBody(op)))
    /\ UNCHANGED <<awaiting, blocking, leaked, bucket>>

\* ---------------------------------------------------------------- get_data

\* except Exception as e: the error escapes and FastAPI answers 500.
get_data_reraise(e) == Response(500, [error |-> <<"Internal Server Error", e.msg>>])

\* except Exception as e: return {"error": f"Server error: {e}"}
get_data_except(e) == Response(200, [error |-> <<"Server error: ", e.msg>>])

\* if not conn: return {"error": "Database connection failed"}
get_data_no_conn == Response(200, [error |-> <<"Database connection failed", "none">>])

\* return {"Date": row["current_time"], "message": "Hello from the database!"}
get_data_ok == Response(200, [Date |-> "now", message |-> "Hello from the database!"])

Resume(from, to) ==
    awaiting' = [a \in Awaits |->
                    awaiting[a] - (IF a = from THEN 1 ELSE 0) + (IF a = to THEN 1 ELSE 0)]

\* The handler starts and suspends in connect_db at `await asyncpg.connect(...)`.
GetDataStart ==
    /\ Receive
    /\ Resume("none", "connect")
    /\ UNCHANGED <<blocking, leaked, bucket, resp, last>>

\* connect_db returns the connection, or catches the exception and returns None.
ConnectDb(ok) ==
    /\ LoopFree
    /\ awaiting.connect > 0
    /\ IF ok
       THEN /\ Resume("connect", "fetchrow")
            /\ UNCHANGED <<resp, last>>
       ELSE /\ Resume("connect", "none")
            /\ Finish("data", NoArg, DbError, get_data_no_conn)
    /\ UNCHANGED <<received, blocking, leaked, bucket>>

\* `await conn.fetchrow(...)` returns the row or raises; when it raises the
\* handler returns from the except clause and conn.close() is not reached.
Fetchrow(ok) ==
    /\ LoopFree
    /\ awaiting.fetchrow > 0
    /\ IF ok
       THEN /\ Resume("fetchrow", "close")
            /\ UNCHANGED <<leaked, resp, last>>
       ELSE /\ Resume("fetchrow", "none")
            /\ leaked' = leaked + 1
            /\ Finish("data", NoArg, DbError, get_data_except(DbError))
    /\ UNCHANGED <<received, blocking, bucket>>

\* `await conn.close()` returns or raises; either way asyncpg has let go of
\* the connection.
Close(ok) ==
    /\ LoopFree
    /\ awaiting.close > 0
    /\ Resume("close", "none")
    /\ IF ok
       THEN Finish("data", NoArg, NoExc, get_data_ok)
       ELSE Finish("data", NoArg, DbError, get_data_except(DbError))
    /\ UNCHANGED <<received, blocking, leaked, bucket>>

\* The operating system closes a leaked connection (the server drops it, or
\* the garbage collector finalises the object).
ConnectionDropped ==
    /\ leaked > 0
    /\ leaked' = leaked - 1
    /\ UNCHANGED <<received, awaiting, blocking, bucket, resp, last>>

\* ------------------------------------------------------------- upload_file

keys(objects) == {o.Key : o \in objects}

\* except ClientError as e: raise HTTPException(status_code=400, ...)
upload_file_except_400(e) ==
    IF e.type = "ClientError"
    THEN HTTPException(400, "S3 upload failed: ", e)
    ELSE HTTPException(500, "Upload failed: ", e)

\* except ClientError / except Exception: raise HTTPException(status_code=500, ...)
upload_file_except(e) ==
    IF e.type = "ClientError"
    THEN HTTPException(500, "S3 upload failed: ", e)
    ELSE HTTPException(500, "Upload failed: ", e)

\* The dict upload_file returns after upload_fileobj returned.  Its content_type
\* and size entries repeat the request's and are left out.
upload_file_ok(file, key) ==
    Response(200, [message |-> "File uploaded successfully",
                   filename |-> key,
                   file_url |-> file_url(key)])

\* POST /api/upload.  `file: UploadFile = File(...)` is required: without the
\* part FastAPI answers 422 and upload_file does not run.  Otherwise the
\* handler derives the key and enters s3_client.upload_fileobj, a
\* synchronous call: the event loop stays inside it until it returns.
UploadFile(file, id) ==
    /\ Receive
    /\ IF file = Missing
       THEN /\ Finish("upload", Missing, NoExc, RequestValidationError)
            /\ UNCHANGED blocking
       ELSE /\ blocking' = [call |-> "upload_fileobj", file |-> file, id |-> id,
                            key |-> unique_filename(id, ext(file))]
            /\ UNCHANGED <<resp, last>>
    /\ UNCHANGED <<awaiting, leaked, bucket>>

\* upload_fileobj stores the object under the key, replacing an object that has
\* it, and the handler returns the dict.
UploadFileobjReturns ==
    /\ blocking.call = "upload_fileobj"
    /\ bucket' = {o \in bucket : o.Key # blocking.key}
                    \cup {[Key |-> blocking.key, by |-> blocking.id]}
    /\ Finish("upload", blocking.file, NoExc, upload_file_ok(blocking.file, blocking.key))
    /\ blocking' = NoCall
    /\ UNCHANGED <<received, awaiting, leaked>>

\* upload_fileobj raises e and the handler raises the HTTPException.
UploadFileobjRaises(e) ==
    /\ blocking.call = "upload_fileobj"
    /\ Finish("upload", blocking.file, e, upload_file_except(e))
    /\ blocking' = NoCall
    /\ UNCHANGED <<received, awaiting, leaked, bucket>>

\* ------------------------------------------------------------- list_images

\* The handler returning the listing of the request before, when that was a
\* listing too.
list_images_cached(Contents) ==
    IF last.op = "list" /\ resp.status = 200
    THEN resp
    ELSE Response(200, [images |-> keys(Contents)])

\* images = [obj['Key'] for obj in response.get('Contents', [])]
list_images_ok(Contents) == Response(200, [images |-> keys(Contents)])

\* except Exception as e: return {"images": []}
list_images_swallow(e) == Response(200, [images |-> {}])

\* except Exception as e: raise HTTPException(status_code=500, ...)
list_images_except(e) == HTTPException(500, "Failed to list images: ", e)

\* The pages list_objects_v2 can answer with: PageSize objects of the bucket,
\* or all of them when there are fewer.
Pages ==
    {page \in SUBSET bucket :
        Cardinality(page) = IF Cardinality(bucket) < PageSize
                            THEN Cardinality(bucket) ELSE PageSize}

\* GET /api/list-images enters s3_client.list_objects_v2, a synchronous call.
ListImages ==
    /\ Receive
    /\ blocking' = [call |-> "list_objects_v2", file |-> NoArg, id |-> 0, key |-> NoArg]
    /\ UNCHANGED <<awaiting, leaked, bucket, resp, last>>

\* list_objects_v2 answers with one page of the bucket as it is now.
ListObjectsReturns(Contents) ==
    /\ blocking.call = "list_objects_v2"
    /\ Finish("list", NoArg, NoExc, list_images_ok(Contents))
    /\ blocking' = NoCall
    /\ UNCHANGED <<received, awaiting, leaked, bucket>>

ListObjectsRaises(e) ==
    /\ blocking.call = "list_objects_v2"
    /\ Finish("list", NoArg, e, list_images_except(e))
    /\ blocking' = NoCall
    /\ UNCHANGED <<received, awaiting, leaked, bucket>>

\* ------------------------------------------------------- get_presigned_url

\* What the signed URL grants: the operation, the bucket, the key, the lifetime.
generate_presigned_url(ClientMethod, Bucket, Key, expires) ==
    [ClientMethod |-> ClientMethod, Bucket |-> Bucket, Key |-> Key, ExpiresIn |-> expires]

\* A handler that looks the key up first and answers 404 when it is absent.
get_presigned_url_checked(filename) ==
    IF filename \in keys(bucket)
    THEN Response(200, [url |-> generate_presigned_url(
                                    "get_object", S3_BUCKET_NAME, filename, ExpiresIn)])
    ELSE Response(404, [detail |-> <<"Not Found", "none">>])

\* url = s3_client.generate_presigned_url('get_object', Params=..., ExpiresIn=3600)
get_presigned_url_ok(filename) ==
    Response(200, [url |-> generate_presigned_url(
                               "get_object", S3_BUCKET_NAME, filename, ExpiresIn)])

get_presigned_url_except(e) == HTTPException(500, "Presigned URL generation failed: ", e)

\* GET /api/generate-presigned-url.  `filename: str` is required: without it
\* FastAPI answers 422.  Signing is a local computation: it reads no bucket,
\* and it returns the URL or raises.
GetPresignedUrl(filename, e) ==
    /\ Receive
    /\ IF filename = Missing
       THEN Finish("presign", Missing, NoExc, RequestValidationError)
       ELSE IF e = NoExc
       THEN Finish("presign", filename, NoExc, get_presigned_url_ok(filename))
       ELSE Finish("presign", filename, e, get_presigned_url_except(e))
    /\ UNCHANGED <<awaiting, blocking, leaked, bucket>>

\* ------------------------------------------------- the bucket's other users

\* Someone else stores an object; its key is none of upload_file's.
ExternalPut ==
    /\ ForeignKey \notin keys(bucket)
    /\ bucket' = bucket \cup {[Key |-> ForeignKey, by |-> 0]}
    /\ UNCHANGED <<received, awaiting, blocking, leaked, resp, last>>

\* Someone else deletes an object.
ExternalDelete(o) ==
    /\ o \in bucket
    /\ bucket' = bucket \ {o}
    /\ UNCHANGED <<received, awaiting, blocking, leaked, resp, last>>

\* ----------------------------------------------------------- specification

Next ==
    \/ HealthCheck
    \/ \E op \in {"root", "hello", "debug-env"} : StaticEndpoint(op)
    \/ GetDataStart
    \/ \E ok \in BOOLEAN : ConnectDb(ok)
    \/ \E ok \in BOOLEAN : Fetchrow(ok)
    \/ \E ok \in BOOLEAN : Close(ok)
    \/ ConnectionDropped
    \/ \E file \in FileNames \cup {Missing}, id \in Ids : UploadFile(file, id)
    \/ UploadFileobjReturns
    \/ \E e \in S3Errors : UploadFileobjRaises(e)
    \/ ListImages
    \/ \E Contents \in Pages : ListObjectsReturns(Contents)
    \/ \E e \in S3Errors : ListObjectsRaises(e)
    \/ \E filename \in Keys \cup {Missing}, e \in {NoExc, OtherError} :
            GetPresignedUrl(filename, e)
    \/ ExternalPut
    \/ \E o \in bucket : ExternalDelete(o)

Spec == Init /\ [][Next]_vars

\* ------------------------------------------------------------------ claims

\* The request that finished last was answered by an endpoint's handler or by
\* FastAPI on its behalf.
Answered == last.op # "none"

\* upload_fileobj has just returned and upload_file has answered.
UploadReturned ==
    /\ blocking.call = "upload_fileobj"
    /\ blocking' = NoCall
    /\ resp'.status = 200

\* list_objects_v2 has just returned and list_images has answered.
ListReturned ==
    /\ blocking.call = "list_objects_v2"
    /\ blocking' = NoCall
    /\ resp'.status = 200

HasDot(name) == \E i \in 1..Len(name) : name[i] = "."

\* The part of name after its last dot.
AfterLastDot(name) ==
    LET i == CHOOSE k \in 1..Len(name) :
                 name[k] = "." /\ \A j \in (k + 1)..Len(name) : name[j] # "."
    IN  SubSeq(name, i + 1, Len(name))

\* C1: when no request is in progress, no database connection is open: every
\* get_data handler has closed the connection it opened by the time it returns.
ConnectionsClosed == InFlight = 0 => openConns = 0

\* C2: an accepted upload of a file named <base>.<ext> returns the key
\* images/<id>.<ext>, ext being the part of the name after its last dot, and
\* the URL https://<bucket>.s3.amazonaws.com/<key>.
UploadKeyForm ==
    (last.op = "upload" /\ last.arg # Missing /\ last.raised = NoExc /\ HasDot(last.arg))
        => /\ resp.status = 200
           /\ \E id \in Ids :
                resp.body.filename = <<"images/", ToString(id), ".">> \o AfterLastDot(last.arg)
           /\ resp.body.file_url =
                <<"https://", S3_BUCKET_NAME, ".s3.amazonaws.com/">> \o resp.body.filename

\* C2 witness: photo.png in small: a.a was uploaded and the key ends in .a
UploadKeyFormWitness ==
    /\ last.op = "upload"
    /\ last.arg = <<"a", ".", "a">>
    /\ resp.status = 200
    /\ resp.body.filename \in keys(bucket)

\* C3 as claimed: no successful upload returns a key that an earlier upload
\* returned, so none replaces an object an earlier upload stored.
NoKeyReturnedTwice ==
    [][UploadReturned => resp'.body.filename \notin keys(bucket)]_vars

\* C3 as amended: a successful upload returns the key of an object an earlier
\* upload stored only when uuid4 returned the same value to both.
SameKeyOnlyForSameUuid ==
    [][UploadReturned =>
          \A o \in bucket : o.Key = resp'.body.filename => o.by = blocking.id]_vars

\* C3 witness: a second upload with the extension of an earlier one, stored
\* beside it under another key.
SameKeyOnlyForSameUuidWitness ==
    /\ last.op = "upload"
    /\ resp.status = 200
    /\ \E o \in bucket :
          /\ o.by # 0
          /\ o.Key # resp.body.filename
          /\ SubSeq(o.Key, 3, Len(o.Key)) = SubSeq(resp.body.filename, 3, Len(resp.body.filename))

\* C4: a successful listing returns only keys that are in the bucket when
\* list_objects_v2 answers.
ListIsFresh ==
    [][ListReturned => resp'.body.images \subseteq keys(bucket)]_vars

\* C4 witness: a listing of a bucket that holds an uploaded object and another
\* one, cut to one page.
ListIsFreshWitness ==
    /\ last.op = "list"
    /\ resp.status = 200
    /\ resp.body.images # {}
    /\ resp.body.images \subseteq keys(bucket)
    /\ resp.body.images # keys(bucket)
    /\ \E o \in bucket : o.by # 0

\* C5: when signing does not raise, the answer is a URL for get_object on the
\* requested key in the configured bucket, valid 3600 seconds, whether or not
\* the bucket holds the key.
PresignedUrlForKey ==
    (last.op = "presign" /\ last.arg # Missing /\ last.raised = NoExc)
        => resp = Response(200, [url |-> [ClientMethod |-> "get_object",
                                          Bucket |-> S3_BUCKET_NAME,
                                          Key |-> last.arg,
                                          ExpiresIn |-> 3600]])

\* C5 witness: a URL was signed for a key the bucket does not hold.
PresignedUrlForKeyWitness ==
    /\ last.op = "presign"
    /\ last.arg \in UploadKeys
    /\ last.arg \notin keys(bucket)
    /\ bucket # {}
    /\ resp.status = 200

\* C6: a database failure in get_data (connect, query or close) is answered
\* with status 200 and a body that has an "error" field.
DbErrorsAre200 ==
    (last.op = "data" /\ last.raised # NoExc)
        => /\ resp.status = 200
           /\ DOMAIN resp.body = {"error"}

\* C6 witness: the query raised and the handler answered from its except clause.
DbErrorsAre200Witness ==
    /\ last.op = "data"
    /\ last.raised = DbError
    /\ resp.body = [error |-> <<"Server error: ", DbError.msg>>]

\* C7: when the object-store call of upload_file, list_images or
\* get_presigned_url raises, the answer has status 500 and a detail that
\* carries the exception's message.
StoreErrorsAre500 ==
    (last.op \in {"upload", "list", "presign"} /\ last.raised # NoExc)
        => /\ resp.status = 500
           /\ DOMAIN resp.body = {"detail"}
           /\ resp.body.detail[2] = last.raised.msg

\* C7 witness: list_objects_v2 raised a ClientError.
StoreErrorsAre500Witness ==
    /\ last.op = "list"
    /\ last.raised = ClientError
    /\ resp.status = 500

\* C8 as claimed: every answer has status 200 or 500.
Only200Or500 == Answered => resp.status \in {200, 500}

\* C8 as amended: every answer has status 200, 500 or 422, and 422 exactly
\* when the request lacks its required parameter (the handler did not run).
No4xxFromHandlers ==
    Answered =>
        /\ resp.status \in {200, 500, 422}
        /\ resp.status = 422 <=> last.arg = Missing
        /\ last.arg = Missing => last.op \in {"upload", "presign"}

\* C8 witness: an upload without the file part was answered 422.
No4xxFromHandlersWitness ==
    /\ last.op = "upload"
    /\ last.arg = Missing
    /\ resp.status = 422

\* C9: GET /health is answered with status 200 and body {"status": "ok"}.
HealthAlwaysOk ==
    last.op = "health" => resp = Response(200, [status |-> "ok"])

\* C9 witness: a health check answered after a get_data handler has left its
\* connection open.
HealthAlwaysOkWitness ==
    /\ last.op = "health"
    /\ resp.status = 200
    /\ leaked > 0

\* C10: while a handler waits for an object-store call, the event loop can
\* handle another request, such as GET /health.
SuspendsAtObjectStoreCalls ==
    (blocking # NoCall /\ received < MaxRequests) => ENABLED HealthCheck

====
